---- MODULE Spec2Model ----
(***************************************************************************)
(* A model of codecleaner (src/codecleaner/core.py): the AST transformer   *)
(* FunctionCallRemover, which deletes statement-level calls to configured  *)
(* names and reconciles emptied blocks, and the regex comment stripper     *)
(* remove_comments with the comment step of clean_file, and clean_file    *)
(* and clean_directory themselves: read, transform, strip, back up, write. *)
(*                                                                         *)
(* Spec, SpecTry and SpecMatch run the transformer, twice, on parsed       *)
(* trees drawn from three input sets; SpecStrip runs the comment step on   *)
(* texts; SpecFile runs clean_file on one file and SpecDir runs            *)
(* clean_directory on a list of files, every file operation succeeding or  *)
(* failing.                                                                *)
(*                                                                         *)
(* Syntax trees are records tagged by `cls`, one constructor per ast      *)
(* class the code touches.  Statement lists are sequences.  A dotted name  *)
(* such as 'logging.debug' is the sequence of its dot-separated labels     *)
(* <<"logging", "debug">>: identifiers hold no dot, so joining two names   *)
(* with '.' is concatenating their label sequences, and two strings are    *)
(* equal exactly when their label sequences are.                           *)
(***************************************************************************)
EXTENDS Integers, Sequences, FiniteSets, TLC

VARIABLES
    tree,                \* the parsed module handed to the first run
    function_names,      \* FunctionCallRemover.function_names
    handle_empty_blocks, \* FunctionCallRemover.handle_empty_blocks
    removed_count,       \* FunctionCallRemover.removed_count of the latest run
    prev,                \* the tree the latest run was given
    out,                 \* the tree the latest run returned
    runs,                \* how many times the transformer has been run
    source,              \* clean_file: the text read from the file
    modified_source,     \* clean_file: the text to write back
    remove_comments_flag,\* clean_file: whether comments are to be stripped
    comments_removed,    \* stats['comments_removed']
    strip_done,          \* whether the comment step of clean_file has run
    disk,                \* the content of each file, by position in python_files
    disk0,               \* the content each file had before the program ran
    is_py,               \* per file: whether its name ends with '.py'
    dry_run,             \* clean_file: dry_run
    create_backup_flag,  \* clean_file: create_backup_flag
    pc,                  \* the step of clean_file that is next
    cur,                 \* clean_directory: position of file_path in python_files
    stats,               \* clean_file: stats, but for 'comments_removed'
    all_stats,           \* clean_directory: all_stats
    backups,             \* /tmp: per file, the backup copy made of it, if any
    events               \* the file operations done so far, in order

vars == <<tree, function_names, handle_empty_blocks, removed_count, prev, out,
          runs, source, modified_source, remove_comments_flag,
          comments_removed, strip_done, disk, disk0, is_py, dry_run,
          create_backup_flag, pc, cur, stats, all_stats, backups, events>>

treeVars == <<tree, function_names, handle_empty_blocks, removed_count, prev,
              out, runs>>

textVars == <<source, modified_source, remove_comments_flag, comments_removed,
              strip_done>>

fileVars == <<disk, disk0, is_py, dry_run, create_backup_flag, pc, cur, stats,
              all_stats, backups, events>>

---------------------------------------------------------------------------
(* The ast node classes the transformer distinguishes.                     *)

Name(id) == [cls |-> "Name", id |-> id]

Attribute(value, attr) == [cls |-> "Attribute", value |-> value, attr |-> attr]

Call(func) == [cls |-> "Call", func |-> func]

Constant == [cls |-> "Constant"]

Expr(value) == [cls |-> "Expr", value |-> value]

Assign(value) == [cls |-> "Assign", value |-> value]

Pass == [cls |-> "Pass"]

If(body, orelse) == [cls |-> "If", body |-> body, orelse |-> orelse]

For(body, orelse) == [cls |-> "For", body |-> body, orelse |-> orelse]

While(body, orelse) == [cls |-> "While", body |-> body, orelse |-> orelse]

\* `type` is the exception class the handler names, here a number.
ExceptHandler(type, body) ==
    [cls |-> "ExceptHandler", type |-> type, body |-> body]

Try(body, handlers, orelse, finalbody) ==
    [cls |-> "Try", body |-> body, handlers |-> handlers,
     orelse |-> orelse, finalbody |-> finalbody]

\* Stands for every class holding a statement list for which the transformer
\* defines no visitor (function and class definitions, with-blocks, ...).
FunctionDef(body) == [cls |-> "FunctionDef", body |-> body]

Module(body) == [cls |-> "Module", body |-> body]

\* The three values of handle_empty_blocks: Synthesize, Delete, Preserve.
Policies == {"pass", "remove", "keep"}

---------------------------------------------------------------------------
(* FunctionCallRemover.  A visit returns the replacement of the node as a   *)
(* sequence (<<>> for None, <<n>> for a node n) and the running value of    *)
(* removed_count.                                                           *)

\* f"{x}.{y}" on dotted names.
Join(x, y) == x \o y

\* A faulty variant: the attribute label alone, whatever the base.
_get_full_name_attr_only(node) == <<node.attr>>

RECURSIVE _get_full_name(_)
_get_full_name(node) ==
    IF node.value.cls = "Name"
    THEN Join(<<node.value.id>>, <<node.attr>>)
    ELSE IF node.value.cls = "Attribute"
    THEN Join(_get_full_name(node.value), <<node.attr>>)
    ELSE <<node.attr>>

\* The two tests of visit_Expr that lead to `return None`.
IsRemovedCall(node) ==
    /\ node.value.cls = "Call"
    /\ IF node.value.func.cls = "Name"
             /\ <<node.value.func.id>> \in function_names
       THEN TRUE
       ELSE /\ node.value.func.cls = "Attribute"
            /\ _get_full_name(node.value.func) \in function_names

RECURSIVE visit(_, _)
RECURSIVE visit_list(_, _)
RECURSIVE generic_visit(_, _)

\* A faulty variant: the list is edited while it is walked, so the item after a removed
\* one is stepped over unvisited.
visit_list_skipping(list, cnt) ==
    IF list = <<>>
    THEN [res |-> <<>>, cnt |-> cnt]
    ELSE LET h == visit(Head(list), cnt)
         IN  IF h.res = <<>> /\ Len(list) >= 2
             THEN LET t == visit_list(Tail(Tail(list)), h.cnt)
                  IN  [res |-> <<list[2]>> \o t.res, cnt |-> t.cnt]
             ELSE LET t == visit_list(Tail(list), h.cnt)
                  IN  [res |-> h.res \o t.res, cnt |-> t.cnt]

\* generic_visit on a list field: visit each item, drop the None results.
visit_list(list, cnt) ==
    IF list = <<>>
    THEN [res |-> <<>>, cnt |-> cnt]
    ELSE LET h == visit(Head(list), cnt)
             t == visit_list(Tail(list), h.cnt)
         IN  [res |-> h.res \o t.res, cnt |-> t.cnt]

\* ast.NodeTransformer.generic_visit: every list field is rewritten in
\* place, in field order; expression children hold no statement and no
\* visitor is defined for them, so they come back as they were.
generic_visit(node, cnt) ==
    IF node.cls \in {"If", "For", "While"}
    THEN LET b == visit_list(node.body, cnt)
             e == visit_list(node.orelse, b.cnt)
         IN  [res |-> <<[node EXCEPT !.body = b.res, !.orelse = e.res]>>,
              cnt |-> e.cnt]
    ELSE IF node.cls = "Try"
    THEN LET b == visit_list(node.body, cnt)
             h == visit_list(node.handlers, b.cnt)
             e == visit_list(node.orelse, h.cnt)
             f == visit_list(node.finalbody, e.cnt)
         IN  [res |-> <<[node EXCEPT !.body = b.res, !.handlers = h.res,
                                     !.orelse = e.res, !.finalbody = f.res]>>,
              cnt |-> f.cnt]
    ELSE IF node.cls \in {"ExceptHandler", "FunctionDef", "Module"}
    THEN LET b == visit_list(node.body, cnt)
         IN  [res |-> <<[node EXCEPT !.body = b.res]>>, cnt |-> b.cnt]
    ELSE [res |-> <<node>>, cnt |-> cnt]

\* A faulty variant: the attribute branch removes the call without counting it.
visit_Expr_uncounted(node, cnt) ==
    IF IsRemovedCall(node)
    THEN [res |-> <<>>,
          cnt |-> IF node.value.func.cls = "Name" THEN cnt + 1 ELSE cnt]
    ELSE generic_visit(node, cnt)

visit_Expr(node, cnt) ==
    IF IsRemovedCall(node)
    THEN [res |-> <<>>, cnt |-> cnt + 1]
    ELSE generic_visit(node, cnt)

\* A faulty variant: the else-clause is filled under 'remove' as it is under 'pass'.
ReconcileOrelse_fills(node) ==
    IF node.orelse = <<>> /\ handle_empty_blocks # "keep"
    THEN [node EXCEPT !.orelse = <<Pass>>]
    ELSE node

\* The else-clause check shared, line for line, by visit_If, visit_For and
\* visit_While: 'pass' fills an empty orelse, 'remove' and 'keep' leave it
\* empty.
ReconcileOrelse(node) ==
    IF node.orelse = <<>> /\ handle_empty_blocks = "pass"
    THEN [node EXCEPT !.orelse = <<Pass>>]
    ELSE node

\* A faulty variant: the body is tested for emptiness before the children are visited.
visit_Block_preorder(node, cnt) ==
    LET g == generic_visit(node, cnt)
        n == g.res[1]
    IN  IF node.body = <<>> /\ handle_empty_blocks # "keep"
        THEN IF handle_empty_blocks = "pass"
             THEN [res |-> <<[n EXCEPT !.body = <<Pass>>]>>, cnt |-> g.cnt]
             ELSE [res |-> <<>>, cnt |-> g.cnt]
        ELSE [res |-> <<n>>, cnt |-> g.cnt]

\* visit_If, visit_For and visit_While are the same code on three classes.
visit_Block(node, cnt) ==
    LET g == generic_visit(node, cnt)
        n == g.res[1]
    IN  IF n.body = <<>> /\ handle_empty_blocks # "keep"
        THEN IF handle_empty_blocks = "pass"
             THEN [res |-> <<ReconcileOrelse([n EXCEPT !.body = <<Pass>>])>>,
                   cnt |-> g.cnt]
             ELSE [res |-> <<>>, cnt |-> g.cnt]
        ELSE [res |-> <<ReconcileOrelse(n)>>, cnt |-> g.cnt]

visit_If(node, cnt) == visit_Block(node, cnt)

visit_For(node, cnt) == visit_Block(node, cnt)

visit_While(node, cnt) == visit_Block(node, cnt)

\* A faulty variant: under 'remove' the loop stops at the first emptied handler.
handlers_to_keep_break(handlers) ==
    LET first == {k \in 1..Len(handlers) : handlers[k].body = <<>>}
        stop == IF first = {} THEN Len(handlers) + 1
                ELSE CHOOSE k \in first : \A j \in first : k <= j
    IN  IF handle_empty_blocks = "remove"
        THEN SubSeq(handlers, 1, stop - 1)
        ELSE [k \in 1..Len(handlers) |->
                 IF handlers[k].body = <<>> /\ handle_empty_blocks = "pass"
                 THEN [handlers[k] EXCEPT !.body = <<Pass>>]
                 ELSE handlers[k]]

\* A faulty variant: the handler loop lacks the test for 'keep', so that
\* Preserve drops an emptied handler as Delete does.
RECURSIVE handlers_to_keep_unguarded(_)
handlers_to_keep_unguarded(handlers) ==
    IF handlers = <<>>
    THEN <<>>
    ELSE LET handler == Head(handlers)
             rest == handlers_to_keep_unguarded(Tail(handlers))
         IN  IF handler.body = <<>>
             THEN IF handle_empty_blocks = "pass"
                  THEN <<[handler EXCEPT !.body = <<Pass>>]>> \o rest
                  ELSE rest
             ELSE <<handler>> \o rest

\* The handler loop of visit_Try.
RECURSIVE handlers_to_keep(_)
handlers_to_keep(handlers) ==
    IF handlers = <<>>
    THEN <<>>
    ELSE LET handler == Head(handlers)
             rest == handlers_to_keep(Tail(handlers))
         IN  IF handler.body = <<>> /\ handle_empty_blocks # "keep"
             THEN IF handle_empty_blocks = "pass"
                  THEN <<[handler EXCEPT !.body = <<Pass>>]>> \o rest
                  ELSE rest
             ELSE <<handler>> \o rest

\* The finally-clause check of visit_Try.
ReconcileFinalbody(node) ==
    IF node.finalbody = <<>> /\ handle_empty_blocks = "pass"
    THEN [node EXCEPT !.finalbody = <<Pass>>]
    ELSE node

ReconcileTry(node) ==
    ReconcileFinalbody([node EXCEPT !.handlers = handlers_to_keep(node.handlers)])

\* A faulty variant: an emptied protected body is left empty under 'pass'.
visit_Try_unfilled(node, cnt) ==
    LET g == generic_visit(node, cnt)
        n == g.res[1]
    IN  IF n.body = <<>> /\ handle_empty_blocks = "remove"
        THEN [res |-> <<>>, cnt |-> g.cnt]
        ELSE [res |-> <<ReconcileTry(n)>>, cnt |-> g.cnt]

visit_Try(node, cnt) ==
    LET g == generic_visit(node, cnt)
        n == g.res[1]
    IN  IF n.body = <<>> /\ handle_empty_blocks # "keep"
        THEN IF handle_empty_blocks = "pass"
             THEN [res |-> <<ReconcileTry([n EXCEPT !.body = <<Pass>>])>>,
                   cnt |-> g.cnt]
             ELSE [res |-> <<>>, cnt |-> g.cnt]
        ELSE [res |-> <<ReconcileTry(n)>>, cnt |-> g.cnt]

\* ast.NodeVisitor.visit: dispatch on the class name, generic_visit when the
\* transformer defines no visit_<class>.
visit(node, cnt) ==
    IF node.cls = "Expr" THEN visit_Expr(node, cnt)
    ELSE IF node.cls = "If" THEN visit_If(node, cnt)
    ELSE IF node.cls = "For" THEN visit_For(node, cnt)
    ELSE IF node.cls = "While" THEN visit_While(node, cnt)
    ELSE IF node.cls = "Try" THEN visit_Try(node, cnt)
    ELSE generic_visit(node, cnt)

---------------------------------------------------------------------------
(* clean_file, lines 231-233: a new FunctionCallRemover (removed_count 0)  *)
(* visits the module.  Run applies it to the parsed tree the first time    *)
(* and to the tree it returned afterwards.                                 *)

MaxRuns == 2

Run ==
    /\ runs < MaxRuns
    /\ LET input == IF runs = 0 THEN tree ELSE out
           r == visit(input, 0)
       IN  /\ prev' = input
           /\ out' = r.res[1]
           /\ removed_count' = r.cnt
    /\ runs' = runs + 1
    /\ UNCHANGED <<tree, function_names, handle_empty_blocks, textVars, fileVars>>

Next == Run

---------------------------------------------------------------------------
(* Inputs: the trees ast.parse can return, by number of statements.  Every *)
(* body, handler body and written else/finally clause holds a statement; a *)
(* try has a handler or a finally-clause, and an else-clause only with a   *)
(* handler.                                                                *)

MaxSize == 3

print == Name("print")

logging_debug == Attribute(Name("logging"), "debug")

Keys == {<<"print">>, <<"logging", "debug">>}

Leaves ==
    {Expr(Call(print)), Expr(Call(logging_debug)), Expr(Constant),
     Assign(Call(print))}

RECURSIVE StmtsOfSize(_)
RECURSIVE ListsOfSize(_)

\* The statement lists holding n statements in all, nested ones included.
ListsOfSize(n) ==
    IF n = 0
    THEN {<<>>}
    ELSE UNION {{<<s>> \o rest : s \in StmtsOfSize(k), rest \in ListsOfSize(n - k)} :
                k \in 1..n}

BlocksOfSize(n) ==
    UNION {{[body |-> b, orelse |-> e] : b \in ListsOfSize(k),
                                         e \in ListsOfSize(n - 1 - k)} :
           k \in 1..(n - 1)}

\* try: body, one handler (of j statements, 0 for no handler), else, finally.
TriesOfSize(n) ==
    UNION {UNION {UNION {
        {Try(b, IF j = 0 THEN <<>> ELSE <<ExceptHandler(1, hb)>>, e, f) :
             b \in ListsOfSize(k), hb \in ListsOfSize(j), e \in ListsOfSize(m),
             f \in ListsOfSize(n - 1 - k - j - m)} :
        m \in {x \in 0..(n - 1 - k - j) :
                  /\ (j = 0 => x = 0)
                  /\ (j = 0 => n - 1 - k - x > 0)}} :
        j \in 0..(n - 1 - k)} :
        k \in 1..(n - 1)}

StmtsOfSize(n) ==
    IF n = 1
    THEN Leaves
    ELSE {If(x.body, x.orelse) : x \in BlocksOfSize(n)}
         \cup {For(x.body, x.orelse) : x \in BlocksOfSize(n)}
         \cup {While(x.body, x.orelse) : x \in BlocksOfSize(n)}
         \cup {FunctionDef(b) : b \in ListsOfSize(n - 1)}
         \cup TriesOfSize(n)

\* Larger inputs than MaxSize reaches: a doubly nested conditional between
\* two statements that stay, and the same around a loop with an else-clause.
Examples ==
    {Module(<<Assign(Call(print)),
              If(<<If(<<Expr(Call(print))>>, <<>>)>>, <<>>),
              Expr(Call(logging_debug))>>),
     Module(<<Expr(Constant),
              While(<<For(<<Expr(Call(print))>>, <<Expr(Call(print))>>)>>,
                    <<Expr(Call(logging_debug))>>),
              Assign(Call(print))>>)}

Trees ==
    {Module(b) : b \in UNION {ListsOfSize(n) : n \in 0..MaxSize}} \cup Examples

\* clean_file, lines 207-212: the statistics of a file before anything is
\* done to it.  A key that is not set yet holds the empty sequence, and the
\* empty string is the empty sequence of characters.
NewStats(file) ==
    [file |-> file, function_calls_removed |-> 0, backup_path |-> <<>>,
     bytes_removed |-> <<>>, bytes_would_remove |-> <<>>]

\* No file is being cleaned.
InitNoFile ==
    /\ disk = <<>>
    /\ disk0 = disk
    /\ is_py = <<>>
    /\ dry_run = FALSE
    /\ create_backup_flag = TRUE
    /\ pc = "done"
    /\ cur = 0
    /\ stats = NewStats(0)
    /\ all_stats = <<>>
    /\ backups = <<>>
    /\ events = <<>>

InitText ==
    /\ source = <<>>
    /\ modified_source = source
    /\ remove_comments_flag = FALSE
    /\ comments_removed = FALSE
    /\ strip_done = FALSE
    /\ InitNoFile

InitRun(trees, names) ==
    /\ tree \in trees
    /\ function_names \in names
    /\ handle_empty_blocks \in Policies
    /\ removed_count = 0
    /\ prev = tree
    /\ out = tree
    /\ runs = 0
    /\ InitText

Init == InitRun(Trees, SUBSET Keys)

Spec == Init /\ [][Next]_vars

\* Inputs about handlers: one try-block with several handlers, the k-th
\* naming exception class k.
MaxHandlers == 3

HandlerBodies ==
    {<<l>> : l \in Leaves}
    \cup {<<Expr(Call(print)), Expr(Call(logging_debug))>>}

HandlerLists ==
    UNION {{[k \in 1..n |-> ExceptHandler(k, bs[k])] : bs \in [1..n -> HandlerBodies]} :
           n \in 2..MaxHandlers}

TryTrees ==
    {Module(<<Try(b, hs, <<>>, f)>>) :
        b \in {<<Expr(Constant)>>, <<Expr(Call(print))>>,
               <<Expr(Call(print)), Assign(Call(print))>>},
        hs \in HandlerLists,
        f \in {<<>>, <<Expr(Call(print))>>, <<Expr(Constant)>>}}

InitTry == InitRun(TryTrees, SUBSET Keys)

SpecTry == InitTry /\ [][Next]_vars

\* Inputs about matching: one call statement, its callee an identifier, a
\* call result, or a chain of up to MaxAttrs attribute accesses on either;
\* names holds at most one key.
MaxAttrs == 2

Labels == {"helper", "debug_print", "print"}

RECURSIVE Callees(_)
Callees(n) ==
    IF n = 0
    THEN {Name(l) : l \in Labels} \cup {Call(Name("get_logger"))}
    ELSE Callees(n - 1) \cup {Attribute(v, a) : v \in Callees(n - 1), a \in Labels}

DottedNames == UNION {[1..k -> Labels] : k \in 1..(MaxAttrs + 1)}

MatchTrees == {Module(<<Expr(Call(c))>>) : c \in Callees(MaxAttrs)}

InitMatch == InitRun(MatchTrees, {{}} \cup {{k} : k \in DottedNames})

SpecMatch == InitMatch /\ [][Next]_vars


---------------------------------------------------------------------------
(* remove_comments: re.sub(r'(?<!\'|\")#[^\n]*', '', source).  A text is   *)
(* the sequence of its characters.  The scan goes left to right: where    *)
(* the pattern matches, the match is left out and the scan resumes behind  *)
(* it; elsewhere the character is copied.                                  *)

Quotes == {"'", "\""}

\* A faulty variant: the pattern without its lookbehind.
MatchesAt_no_lookbehind(text, i) == text[i] = "#"

\* (?<!\'|\")# at position i: a '#' with no quote right before it.
MatchesAt(text, i) ==
    /\ text[i] = "#"
    /\ (i = 1 \/ text[i - 1] \notin Quotes)

RECURSIVE MatchEnd(_, _)
\* [^\n]* from position j: the first position it does not take.
MatchEnd(text, j) ==
    IF j > Len(text) \/ text[j] = "\n" THEN j ELSE MatchEnd(text, j + 1)

RECURSIVE Sub(_, _)
Sub(text, i) ==
    IF i > Len(text) THEN <<>>
    ELSE IF MatchesAt(text, i) THEN Sub(text, MatchEnd(text, i + 1))
    ELSE <<text[i]>> \o Sub(text, i + 1)

remove_comments(text) == Sub(text, 1)

\* clean_file, lines 247-252.
CommentStep ==
    /\ IF remove_comments_flag
       THEN LET source_without_comments == remove_comments(modified_source)
            IN  IF source_without_comments # modified_source
                THEN /\ modified_source' = source_without_comments
                     /\ comments_removed' = TRUE
                ELSE UNCHANGED <<modified_source, comments_removed>>
       ELSE UNCHANGED <<modified_source, comments_removed>>
    /\ strip_done' = TRUE

StripComments ==
    /\ ~strip_done
    /\ CommentStep
    /\ UNCHANGED <<source, remove_comments_flag, treeVars, fileVars>>

NextStrip == StripComments

MaxLen == 5

Alphabet == {"#", "'", "\"", "\n", "x"}

Texts == UNION {[1..n -> Alphabet] : n \in 0..MaxLen}

InitStrip ==
    /\ source \in Texts
    /\ modified_source = source
    /\ remove_comments_flag \in BOOLEAN
    /\ comments_removed = FALSE
    /\ strip_done = FALSE
    /\ tree = Module(<<>>)
    /\ function_names = {<<"print">>}
    /\ handle_empty_blocks = "pass"
    /\ removed_count = 0
    /\ prev = tree
    /\ out = tree
    /\ runs = 0
    /\ InitNoFile

SpecStrip == InitStrip /\ [][NextStrip]_vars

---------------------------------------------------------------------------
(* clean_file and clean_directory.  A text is a sequence of tokens: the    *)
(* statements print() and keep(), the comment marker, an opening bracket   *)
(* and the newline.  A line parses when what stands before its first       *)
(* marker is nothing or one statement; an opening bracket outside a        *)
(* comment is never closed and is a SyntaxError.  Every file operation     *)
(* (read, copy, open for writing, write) succeeds or raises.               *)

RECURSIVE splitlines(_)
splitlines(text) ==
    IF text = <<>> THEN <<>>
    ELSE LET e == MatchEnd(text, 1)
         IN  <<SubSeq(text, 1, e - 1)>> \o splitlines(SubSeq(text, e + 1, Len(text)))

\* What a line holds before its first comment marker.
Code(line) ==
    LET marks == {i \in 1..Len(line) : line[i] = "#"}
    IN  IF marks = {} THEN line
        ELSE SubSeq(line, 1, (CHOOSE i \in marks : \A j \in marks : i <= j) - 1)

ParseOK(text) ==
    \A k \in 1..Len(splitlines(text)) :
        Code(splitlines(text)[k]) \in {<<>>, <<"print()">>, <<"keep()">>}

RECURSIVE StatementsOf(_)
StatementsOf(lines) ==
    IF lines = <<>> THEN <<>>
    ELSE (IF Code(Head(lines)) = <<"print()">> THEN <<Expr(Call(Name("print")))>>
          ELSE IF Code(Head(lines)) = <<"keep()">> THEN <<Expr(Call(Name("keep")))>>
          ELSE <<>>)
         \o StatementsOf(Tail(lines))

\* ast.parse on a text that parses.
parse(text) == Module(StatementsOf(splitlines(text)))

RECURSIVE unparse_body(_)
unparse_body(body) ==
    IF body = <<>> THEN <<>>
    ELSE <<IF Head(body).value.func.id = "print" THEN "print()" ELSE "keep()">>
         \o (IF Tail(body) = <<>> THEN <<>> ELSE <<"\n">> \o unparse_body(Tail(body)))

\* ast.unparse: one statement per line, no comment, no final newline.
unparse(node) == unparse_body(node.body)

Log(what) == events' = Append(events, <<cur, what>>)

\* A faulty variant: the exception of a failed read is not caught.
clean_file_read_uncaught ==
    /\ pc = "clean_file"
    /\ stats' = NewStats(cur)
    /\ comments_removed' = FALSE
    /\ strip_done' = FALSE
    /\ removed_count' = 0
    /\ IF ~is_py[cur]
       THEN /\ pc' = "return"
            /\ source' = <<>>
            /\ modified_source' = <<>>
            /\ UNCHANGED events
       ELSE \E ok \in BOOLEAN :
              IF ok
              THEN /\ source' = disk[cur]
                   /\ modified_source' = disk[cur]
                   /\ pc' = "transform"
                   /\ Log("read")
              ELSE /\ source' = <<>>
                   /\ modified_source' = <<>>
                   /\ pc' = "raised"
                   /\ Log("read_failed")
    /\ UNCHANGED <<tree, function_names, handle_empty_blocks, prev, out, runs,
                   remove_comments_flag, disk, disk0, is_py, dry_run,
                   create_backup_flag, cur, all_stats, backups>>

\* clean_file, lines 206-227: the statistics are initialised, a file whose
\* name does not end with '.py' is skipped, and the file is read; a read that
\* raises is reported and the statistics are returned as they are.
clean_file_read ==
    /\ pc = "clean_file"
    /\ stats' = NewStats(cur)
    /\ comments_removed' = FALSE
    /\ strip_done' = FALSE
    /\ removed_count' = 0
    /\ IF ~is_py[cur]
       THEN /\ pc' = "return"
            /\ source' = <<>>
            /\ modified_source' = <<>>
            /\ UNCHANGED events
       ELSE \E ok \in BOOLEAN :
              IF ok
              THEN /\ source' = disk[cur]
                   /\ modified_source' = disk[cur]
                   /\ pc' = "transform"
                   /\ Log("read")
              ELSE /\ source' = <<>>
                   /\ modified_source' = <<>>
                   /\ pc' = "return"
                   /\ Log("read_failed")
    /\ UNCHANGED <<tree, function_names, handle_empty_blocks, prev, out, runs,
                   remove_comments_flag, disk, disk0, is_py, dry_run,
                   create_backup_flag, cur, all_stats, backups>>

\* A faulty variant: a failed transformation returns the statistics at once.
clean_file_transform_returns ==
    /\ pc = "transform"
    /\ \E raises \in BOOLEAN :
         IF raises \/ ~ParseOK(source)
         THEN /\ Log("transform_failed")
              /\ pc' = "return"
              /\ UNCHANGED <<tree, prev, out, removed_count, modified_source, stats>>
         ELSE LET r == visit(parse(source), 0)
              IN  /\ tree' = parse(source)
                  /\ prev' = parse(source)
                  /\ out' = r.res[1]
                  /\ removed_count' = r.cnt
                  /\ stats' = [stats EXCEPT !.function_calls_removed = r.cnt]
                  /\ modified_source' = IF r.cnt > 0 THEN unparse(r.res[1])
                                        ELSE modified_source
                  /\ pc' = "strip"
                  /\ UNCHANGED events
    /\ UNCHANGED <<function_names, handle_empty_blocks, runs, source,
                   remove_comments_flag, comments_removed, strip_done, disk,
                   disk0, is_py, dry_run, create_backup_flag, cur, all_stats,
                   backups>>

\* clean_file, lines 229-245: parse, transform, unparse; the count and the
\* new text are taken over at the end of the try-block, the text only when a
\* call was removed.  An exception anywhere in it is reported and the steps
\* that follow go on with the text that was read.
clean_file_transform ==
    /\ pc = "transform"
    /\ \E raises \in BOOLEAN :
         IF raises \/ ~ParseOK(source)
         THEN /\ Log("transform_failed")
              /\ UNCHANGED <<tree, prev, out, removed_count, modified_source, stats>>
         ELSE LET r == visit(parse(source), 0)
              IN  /\ tree' = parse(source)
                  /\ prev' = parse(source)
                  /\ out' = r.res[1]
                  /\ removed_count' = r.cnt
                  /\ stats' = [stats EXCEPT !.function_calls_removed = r.cnt]
                  /\ modified_source' = IF r.cnt > 0 THEN unparse(r.res[1])
                                        ELSE modified_source
                  /\ UNCHANGED events
    /\ pc' = "strip"
    /\ UNCHANGED <<function_names, handle_empty_blocks, runs, source,
                   remove_comments_flag, comments_removed, strip_done, disk,
                   disk0, is_py, dry_run, create_backup_flag, cur, all_stats,
                   backups>>

\* A faulty variant: a file is rewritten only when a call was removed.
WriteCondition_calls_only(calls, comments) == ~dry_run /\ calls > 0

\* clean_file, line 255.
WriteCondition(calls, comments) == ~dry_run /\ (calls > 0 \/ comments)

\* clean_file, lines 247-255 and 270-271: the comment step, then the choice
\* between rewriting the file, reporting a dry run and doing nothing.
clean_file_strip ==
    /\ pc = "strip"
    /\ CommentStep
    /\ IF WriteCondition(stats.function_calls_removed, comments_removed')
       THEN /\ pc' = IF create_backup_flag THEN "create_backup" ELSE "open"
            /\ UNCHANGED stats
       ELSE /\ pc' = "return"
            /\ stats' = IF dry_run
                        THEN [stats EXCEPT !.bytes_would_remove =
                                 <<Len(source) - Len(modified_source')>>]
                        ELSE stats
    /\ UNCHANGED <<treeVars, source, remove_comments_flag, disk, disk0, is_py,
                   dry_run, create_backup_flag, cur, all_stats, backups, events>>

\* What a copy or a write that raised can leave behind: any part of the text.
Prefixes(text) == {SubSeq(text, 1, n) : n \in 0..Len(text)}

\* A faulty variant: create_backup lets the exception of the copy through to
\* the handler of the write step.
create_backup_uncaught ==
    /\ pc = "create_backup"
    /\ \E ok \in BOOLEAN :
         IF ok
         THEN /\ backups' = [backups EXCEPT ![cur] = <<disk[cur]>>]
              /\ stats' = [stats EXCEPT !.backup_path = <<"/tmp", cur>>]
              /\ pc' = "open"
              /\ Log("backup")
         ELSE /\ \E left \in {backups[cur]} \cup {<<t>> : t \in Prefixes(disk[cur])} :
                    backups' = [backups EXCEPT ![cur] = left]
              /\ pc' = "return"
              /\ UNCHANGED stats
              /\ Log("backup_failed")
    /\ UNCHANGED <<treeVars, textVars, disk, disk0, is_py, dry_run,
                   create_backup_flag, cur, all_stats>>

\* clean_file, lines 258-263, with create_backup, lines 147-167: the file is
\* copied to /tmp and the path of the copy is returned; a copy that raises is
\* a warning and the empty path.
create_backup ==
    /\ pc = "create_backup"
    /\ \E ok \in BOOLEAN :
         IF ok
         THEN /\ backups' = [backups EXCEPT ![cur] = <<disk[cur]>>]
              /\ stats' = [stats EXCEPT !.backup_path = <<"/tmp", cur>>]
              /\ Log("backup")
         ELSE /\ \E left \in {backups[cur]} \cup {<<t>> : t \in Prefixes(disk[cur])} :
                    backups' = [backups EXCEPT ![cur] = left]
              /\ stats' = [stats EXCEPT !.backup_path = <<>>]
              /\ Log("backup_failed")
    /\ pc' = "open"
    /\ UNCHANGED <<treeVars, textVars, disk, disk0, is_py, dry_run,
                   create_backup_flag, cur, all_stats>>

\* clean_file, line 265: open(file_path, 'w') empties the file; an open that
\* raises is reported by the handler of line 268.
clean_file_open ==
    /\ pc = "open"
    /\ \E ok \in BOOLEAN :
         IF ok
         THEN /\ disk' = [disk EXCEPT ![cur] = <<>>]
              /\ pc' = "write"
              /\ Log("open")
         ELSE /\ pc' = "return"
              /\ Log("open_failed")
              /\ UNCHANGED disk
    /\ UNCHANGED <<treeVars, textVars, disk0, is_py, dry_run,
                   create_backup_flag, cur, stats, all_stats, backups>>

\* clean_file, lines 266-269: the text is written and the file closed, then
\* bytes_removed is set; a write that raises is reported by the handler of
\* line 268 and leaves in the file what had been written.
clean_file_write ==
    /\ pc = "write"
    /\ \E ok \in BOOLEAN :
         IF ok
         THEN /\ disk' = [disk EXCEPT ![cur] = modified_source]
              /\ stats' = [stats EXCEPT !.bytes_removed =
                              <<Len(source) - Len(modified_source)>>]
              /\ Log("write")
         ELSE /\ \E left \in Prefixes(modified_source) :
                    disk' = [disk EXCEPT ![cur] = left]
              /\ Log("write_failed")
              /\ UNCHANGED stats
    /\ pc' = "return"
    /\ UNCHANGED <<treeVars, textVars, disk0, is_py, dry_run,
                   create_backup_flag, cur, all_stats, backups>>

\* clean_file, line 273, and the loop of clean_directory, lines 312-322: the
\* statistics are returned and appended, and the next file is taken.
clean_file_return ==
    /\ pc = "return"
    /\ all_stats' = Append(all_stats,
           [file |-> stats.file,
            function_calls_removed |-> stats.function_calls_removed,
            comments_removed |-> comments_removed,
            backup_path |-> stats.backup_path,
            bytes_removed |-> stats.bytes_removed,
            bytes_would_remove |-> stats.bytes_would_remove])
    /\ IF cur < Len(disk)
       THEN /\ cur' = cur + 1
            /\ pc' = "clean_file"
       ELSE /\ pc' = "done"
            /\ UNCHANGED cur
    /\ UNCHANGED <<treeVars, textVars, disk, disk0, is_py, dry_run,
                   create_backup_flag, stats, backups, events>>

NextFile ==
    \/ clean_file_read
    \/ clean_file_transform
    \/ clean_file_strip
    \/ create_backup
    \/ clean_file_open
    \/ clean_file_write
    \/ clean_file_return

MaxFileLen == 3

Tokens == {"print()", "keep()", "#", "(", "\n"}

FileTexts == UNION {[1..n -> Tokens] : n \in 0..MaxFileLen}

\* The state at the call of clean_file on the first of the files, under the
\* default names and policy.
InitFiles(contents, suffixes) ==
    /\ disk \in contents
    /\ disk0 = disk
    /\ is_py \in suffixes
    /\ Len(is_py) = Len(disk)
    /\ dry_run \in BOOLEAN
    /\ create_backup_flag \in BOOLEAN
    /\ remove_comments_flag \in BOOLEAN
    /\ pc = "clean_file"
    /\ cur = 1
    /\ stats = NewStats(cur)
    /\ all_stats = <<>>
    /\ backups = [k \in 1..Len(disk) |-> <<>>]
    /\ events = <<>>
    /\ source = <<>>
    /\ modified_source = <<>>
    /\ comments_removed = FALSE
    /\ strip_done = FALSE
    /\ tree = Module(<<>>)
    /\ function_names = {<<"print">>}
    /\ handle_empty_blocks = "pass"
    /\ removed_count = 0
    /\ prev = tree
    /\ out = tree
    /\ runs = 0

\* clean_file called on one path, with or without the suffix '.py'.
InitFile == InitFiles({<<t>> : t \in FileTexts}, {<<TRUE>>, <<FALSE>>})

SpecFile == InitFile /\ [][NextFile]_vars

\* clean_directory on one to MaxFiles files, all matched by '*.py'.
MaxFiles == 2

DirTexts == {<<"print()">>, <<"(", "#">>}

InitDir ==
    InitFiles(UNION {[1..n -> DirTexts] : n \in 1..MaxFiles},
              {[k \in 1..n |-> TRUE] : n \in 1..MaxFiles})

SpecDir == InitDir /\ [][NextFile]_vars


---------------------------------------------------------------------------
(* Vocabulary of the properties.                                           *)

Blocks == {"If", "For", "While", "Try"}

HasBody == Blocks \cup {"ExceptHandler", "FunctionDef", "Module"}

\* A statement-level call whose callee, resolved as the transformer resolves
\* it (the identifier, or _get_full_name of the attribute), is in names.
MatchesNames(stmt) ==
    /\ stmt.cls = "Expr"
    /\ stmt.value.cls = "Call"
    /\ stmt.value.func.cls \in {"Name", "Attribute"}
    /\ (IF stmt.value.func.cls = "Name"
        THEN <<stmt.value.func.id>>
        ELSE _get_full_name(stmt.value.func)) \in function_names

RECURSIVE CountMatching(_)
RECURSIVE CountMatchingIn(_)

\* The matching statement-level calls in a list, nested ones included.
CountMatchingIn(list) ==
    IF list = <<>> THEN 0
    ELSE CountMatching(Head(list)) + CountMatchingIn(Tail(list))

CountMatching(node) ==
    IF MatchesNames(node) THEN 1
    ELSE IF node.cls \in {"If", "For", "While"}
    THEN CountMatchingIn(node.body) + CountMatchingIn(node.orelse)
    ELSE IF node.cls = "Try"
    THEN CountMatchingIn(node.body) + CountMatchingIn(node.handlers)
         + CountMatchingIn(node.orelse) + CountMatchingIn(node.finalbody)
    ELSE IF node.cls \in HasBody
    THEN CountMatchingIn(node.body)
    ELSE 0

RECURSIVE KeptLeaves(_)
RECURSIVE KeptLeavesIn(_)

\* The statements of a list that are no matching call and hold no statement
\* list, nested ones included, in source order.  Placeholders are left out.
KeptLeavesIn(list) ==
    IF list = <<>> THEN <<>>
    ELSE KeptLeaves(Head(list)) \o KeptLeavesIn(Tail(list))

KeptLeaves(node) ==
    IF node.cls \in {"If", "For", "While"}
    THEN KeptLeavesIn(node.body) \o KeptLeavesIn(node.orelse)
    ELSE IF node.cls = "Try"
    THEN KeptLeavesIn(node.body) \o KeptLeavesIn(node.handlers)
         \o KeptLeavesIn(node.orelse) \o KeptLeavesIn(node.finalbody)
    ELSE IF node.cls \in HasBody
    THEN KeptLeavesIn(node.body)
    ELSE IF MatchesNames(node) \/ node.cls = "Pass" THEN <<>>
    ELSE <<node>>

RECURSIVE Survives(_)
RECURSIVE Survivors(_)

\* The statements and handlers of a list that the policies are to leave in
\* it, in order: a call is dropped when it matches, and under Delete a
\* block or handler is dropped when nothing of its body is left.
Survivors(list) ==
    IF list = <<>> THEN <<>>
    ELSE (IF Survives(Head(list)) THEN <<Head(list)>> ELSE <<>>)
         \o Survivors(Tail(list))

Survives(node) ==
    IF node.cls = "Expr" THEN ~MatchesNames(node)
    ELSE IF node.cls \in Blocks \cup {"ExceptHandler"}
    THEN handle_empty_blocks = "remove" => Survivors(node.body) # <<>>
    ELSE TRUE

Min(a, b) == IF a <= b THEN a ELSE b

RECURSIVE Pairs(_, _)
RECURSIVE PairsIn(_, _)

\* Each node of the input that is to stay, paired with the node standing in
\* its place in the output.
PairsIn(inList, outList) ==
    LET S == Survivors(inList)
    IN  UNION {Pairs(S[k], outList[k]) : k \in 1..Min(Len(S), Len(outList))}

Pairs(i, o) ==
    {<<i, o>>} \cup
    (IF i.cls # o.cls THEN {}
     ELSE IF i.cls \in {"If", "For", "While"}
     THEN PairsIn(i.body, o.body) \cup PairsIn(i.orelse, o.orelse)
     ELSE IF i.cls = "Try"
     THEN PairsIn(i.body, o.body) \cup PairsIn(i.handlers, o.handlers)
          \cup PairsIn(i.orelse, o.orelse) \cup PairsIn(i.finalbody, o.finalbody)
     ELSE IF i.cls \in HasBody
     THEN PairsIn(i.body, o.body)
     ELSE {})

\* outList holds one node per surviving node of inList, of the same class
\* and in the same order.
Aligned(inList, outList) ==
    LET S == Survivors(inList)
    IN  /\ Len(outList) = Len(S)
        /\ \A k \in 1..Len(S) : outList[k].cls = S[k].cls

\* Aligned, and the statements that hold no statement list are identical.
SameShape(inList, outList) ==
    LET S == Survivors(inList)
    IN  /\ Aligned(inList, outList)
        /\ \A k \in 1..Len(S) : S[k].cls \notin HasBody => outList[k] = S[k]

\* The statement lists of a node, by field.
ListFields(node) ==
    IF node.cls \in {"If", "For", "While"} THEN {"body", "orelse"}
    ELSE IF node.cls = "Try" THEN {"body", "handlers", "orelse", "finalbody"}
    ELSE IF node.cls \in HasBody THEN {"body"}
    ELSE {}

RECURSIVE NodesOf(_)
RECURSIVE NodesIn(_)

\* Every node of a tree that is a statement, a handler or the module.
NodesIn(list) == UNION {NodesOf(list[k]) : k \in 1..Len(list)}

NodesOf(node) ==
    {node} \cup UNION {NodesIn(node[f]) : f \in ListFields(node)}

NoEmptyBlockBody(root) ==
    \A n \in NodesOf(root) : n.cls \in Blocks => n.body # <<>>


---------------------------------------------------------------------------
\* C1: after a run, removed_count is the number of statement-level calls of
\* the input whose resolved callee is in names, at every depth, and no such
\* call is left anywhere in the output.
C1_Conservation ==
    runs >= 1 =>
        /\ removed_count = CountMatching(prev)
        /\ CountMatching(out) = 0

\* A run under Delete that removed a conditional holding two matching calls,
\* one of them through an attribute callee.
C1_Witness ==
    /\ runs = 1
    /\ handle_empty_blocks = "remove"
    /\ prev = Module(<<If(<<Expr(Call(print))>>, <<Expr(Call(logging_debug))>>)>>)
    /\ removed_count = 2
    /\ out = Module(<<>>)

\* C2: under every policy the statements that are no matching call are all
\* still in the output, in their order, wherever they stood.
C2_KeptStatementsStay ==
    runs >= 1 => KeptLeaves(out) = KeptLeaves(prev)

\* C7: a second run with the same names and policy returns the tree it was
\* given and removes nothing.
C7_Idempotent ==
    runs >= 2 => (out = prev /\ removed_count = 0)

\* A second run on a tree whose first run removed calls and filled a body.
C7_Witness ==
    /\ runs = 2
    /\ handle_empty_blocks = "pass"
    /\ CountMatching(tree) > 0
    /\ tree # out
    /\ \E i \in 1..Len(out.body) :
           out.body[i].cls \in Blocks /\ out.body[i].body = <<Pass>>

\* C3: under Synthesize every conditional, loop and try-block of the input
\* stands in the output where it stood, among the surviving statements of
\* its list; when removal emptied its body the body is the one placeholder;
\* and no conditional, loop or try-block of the output has an empty body.
C3_SynthesizeFillsBody ==
    (runs >= 1 /\ handle_empty_blocks = "pass") =>
        /\ \A p \in Pairs(prev, out) :
              /\ p[2].cls = p[1].cls
              /\ \A f \in ListFields(p[1]) :
                    Survivors(p[1][f]) # <<>> => Aligned(p[1][f], p[2][f])
              /\ (p[1].cls \in Blocks /\ Survivors(p[1].body) = <<>>)
                    => p[2].body = <<Pass>>
        /\ NoEmptyBlockBody(out)

\* A loop nested in a function whose body held only matching calls.
C3_Witness ==
    /\ runs = 1
    /\ handle_empty_blocks = "pass"
    /\ \E p \in Pairs(prev, out) :
          /\ p[1].cls = "FunctionDef"
          /\ Len(p[1].body) = 1
          /\ p[1].body[1].cls = "While"
          /\ p[1].body[1].body = <<Expr(Call(logging_debug))>>
          /\ p[2].body[1].cls = "While"
          /\ p[2].body[1].body = <<Pass>>

\* C4: under Delete every list of the output holds exactly the surviving
\* nodes of the input list, in order: a block whose body is emptied, by
\* removal or because its nested blocks were deleted, is gone after the one
\* pass; the statements around it that hold no statement list are
\* identical, and a neighbour in which nothing matches is unchanged.
C4_DeleteCascades ==
    (runs >= 1 /\ handle_empty_blocks = "remove") =>
        /\ \A p \in Pairs(prev, out) :
              /\ p[2].cls = p[1].cls
              /\ \A f \in ListFields(p[1]) : SameShape(p[1][f], p[2][f])
              /\ CountMatching(p[1]) = 0 => p[2] = p[1]
        /\ NoEmptyBlockBody(out)

\* A conditional emptied only because the conditional nested in it was
\* deleted, between two statements that stay.
C4_Witness ==
    /\ runs = 1
    /\ handle_empty_blocks = "remove"
    /\ function_names = {<<"print">>}
    /\ prev = Module(<<Assign(Call(print)),
                       If(<<If(<<Expr(Call(print))>>, <<>>)>>, <<>>),
                       Expr(Call(logging_debug))>>)
    /\ out = Module(<<Assign(Call(print)), Expr(Call(logging_debug))>>)

\* C5: an if/for/while whose body keeps a statement and whose written
\* else-clause is emptied by removal stays, its body holding its surviving
\* statements, and its else-clause is the one placeholder under Synthesize
\* and empty (no else-clause) under Delete and Preserve; under Synthesize an
\* else-clause that keeps a statement holds exactly its surviving
\* statements, no placeholder, whatever became of the body.
C5_ElseReconciled ==
    runs >= 1 =>
        \A p \in Pairs(prev, out) :
            p[1].cls \in {"If", "For", "While"} =>
                /\ p[2].cls = p[1].cls
                /\ (/\ Survivors(p[1].body) # <<>>
                    /\ p[1].orelse # <<>>
                    /\ Survivors(p[1].orelse) = <<>>)
                   => /\ SameShape(p[1].body, p[2].body)
                      /\ p[2].orelse = IF handle_empty_blocks = "pass"
                                       THEN <<Pass>> ELSE <<>>
                /\ (handle_empty_blocks = "pass" /\ Survivors(p[1].orelse) # <<>>)
                   => SameShape(p[1].orelse, p[2].orelse)

\* A loop whose else-clause held one matching call and whose body keeps a
\* statement, under Delete.
C5_Witness ==
    /\ runs = 1
    /\ handle_empty_blocks = "remove"
    /\ prev = Module(<<For(<<Expr(Constant)>>, <<Expr(Call(print))>>)>>)
    /\ out = Module(<<For(<<Expr(Constant)>>, <<>>)>>)

\* The exception classes a handler list names, in order.
Types(handlers) == [k \in 1..Len(handlers) |-> handlers[k].type]

\* The handlers whose body keeps a statement.
RECURSIVE NonEmptied(_)
NonEmptied(handlers) ==
    IF handlers = <<>> THEN <<>>
    ELSE (IF Survivors(Head(handlers).body) # <<>> THEN <<Head(handlers)>> ELSE <<>>)
         \o NonEmptied(Tail(handlers))

\* C6: in a try-block whose protected body keeps a statement, Delete leaves
\* exactly the handlers whose body keeps a statement, in their order;
\* Synthesize and Preserve leave every handler, in order, an emptied body
\* being the one placeholder under Synthesize and empty under Preserve; a
\* handler body that keeps a statement holds its surviving statements.
C6_HandlersIndependent ==
    runs >= 1 =>
        \A p \in Pairs(prev, out) :
            (p[1].cls = "Try" /\ Survivors(p[1].body) # <<>>) =>
                LET expected == IF handle_empty_blocks = "remove"
                                THEN NonEmptied(p[1].handlers)
                                ELSE p[1].handlers
                    got == p[2].handlers
                IN  /\ p[2].cls = "Try"
                    /\ Types(got) = Types(expected)
                    /\ \A k \in 1..Len(expected) :
                          IF Survivors(expected[k].body) # <<>>
                          THEN SameShape(expected[k].body, got[k].body)
                          ELSE got[k].body = IF handle_empty_blocks = "pass"
                                             THEN <<Pass>> ELSE <<>>

\* Delete on three handlers of which the first and the last are emptied.
C6_Witness ==
    /\ runs = 1
    /\ handle_empty_blocks = "remove"
    /\ Len(prev.body) = 1
    /\ prev.body[1].cls = "Try"
    /\ Survivors(prev.body[1].body) # <<>>
    /\ Len(prev.body[1].handlers) = 3
    /\ Types(NonEmptied(prev.body[1].handlers)) = <<2>>
    /\ Len(out.body) = 1
    /\ Types(out.body[1].handlers) = <<2>>

RECURSIVE NameRooted(_)
\* An identifier, or attribute accesses on one.
NameRooted(func) ==
    \/ func.cls = "Name"
    \/ func.cls = "Attribute" /\ NameRooted(func.value)

RECURSIVE DottedName(_)
\* a.b.c as the key 'a.b.c'.
DottedName(func) ==
    IF func.cls = "Name" THEN <<func.id>>
    ELSE DottedName(func.value) \o <<func.attr>>

\* C8: a call statement whose callee is an identifier or a chain of
\* attribute accesses on an identifier is removed exactly when names holds
\* the whole dotted name; otherwise it is kept and nothing is counted.
C8_ExactMatch ==
    (runs >= 1 /\ Len(prev.body) = 1 /\ NameRooted(prev.body[1].value.func)) =>
        IF DottedName(prev.body[1].value.func) \in function_names
        THEN out.body = <<>> /\ removed_count = 1
        ELSE out = prev /\ removed_count = 0

\* a.b.c() kept although names holds 'b.c'.
C8_Witness ==
    /\ runs = 1
    /\ Len(prev.body) = 1
    /\ NameRooted(prev.body[1].value.func)
    /\ Len(DottedName(prev.body[1].value.func)) = 3
    /\ function_names = {Tail(DottedName(prev.body[1].value.func))}
    /\ out = prev

\* C9: helper.debug_print("Testing") is removed exactly when names holds
\* the bare method name 'debug_print'.
C9_BareMethodName ==
    (runs >= 1 /\ prev = Module(<<Expr(Call(Attribute(Name("helper"), "debug_print")))>>)) =>
        (out.body = <<>> <=> <<"debug_print">> \in function_names)

\* A comment-start marker: a '#' not immediately preceded by a quote.
CommentStart(text, j) ==
    /\ text[j] = "#"
    /\ (j = 1 \/ ~(text[j - 1] = "'" \/ text[j - 1] = "\""))

\* Position i lies between a marker of its line and the end of the line.
InComment(text, i) ==
    \E j \in 1..i :
        /\ CommentStart(text, j)
        /\ \A k \in j..i : text[k] # "\n"

RECURSIVE Outside(_, _)
\* The characters from position i on that lie in no comment, in order.
Outside(text, i) ==
    IF i > Len(text) THEN <<>>
    ELSE (IF InComment(text, i) THEN <<>> ELSE <<text[i]>>) \o Outside(text, i + 1)

Newlines(text) == Cardinality({i \in 1..Len(text) : text[i] = "\n"})

\* C10: the stripper leaves out exactly the characters from a marker to the
\* end of its line and keeps every other character, every newline among
\* them, in place; the changed flag is true exactly when the text it
\* returned differs from the text it was given.  When stripping is not
\* asked for, the text stays and the flag is false.
C10_CommentsStripped ==
    strip_done =>
        /\ remove_comments_flag => modified_source = Outside(source, 1)
        /\ ~remove_comments_flag => modified_source = source
        /\ Newlines(modified_source) = Newlines(source)
        /\ comments_removed <=> modified_source # source

\* A line whose first '#' follows a quote and is kept, and whose second one
\* starts the comment that is cut, the next line staying.
C10_Witness ==
    /\ strip_done
    /\ remove_comments_flag
    /\ source = <<"'", "#", "#", "\n", "x">>
    /\ modified_source = <<"'", "#", "\n", "x">>
    /\ comments_removed

\* C16: a call statement whose callee is neither an identifier nor a chain
\* of attribute accesses on an identifier (a call result being called, an
\* attribute of a call result) is kept whatever names holds, and nothing is
\* counted.
C16_OnlyNameRooted ==
    (runs >= 1 /\ Len(prev.body) = 1 /\ ~NameRooted(prev.body[1].value.func)) =>
        /\ out = prev
        /\ removed_count = 0

\* C17: under Synthesize a conditional, loop or try-block whose else-clause
\* (or finally-clause) is absent in the input has none in the output, and a
\* tree in which no call matches is returned as it was.
C17_ClauseOnlyWhenEmptied ==
    (runs >= 1 /\ handle_empty_blocks = "pass") =>
        /\ \A p \in Pairs(prev, out) :
              (p[1].cls \in Blocks /\ p[2].cls = p[1].cls) =>
                  /\ p[1].orelse = <<>> => p[2].orelse = <<>>
                  /\ (p[1].cls = "Try" /\ p[1].finalbody = <<>>)
                        => p[2].finalbody = <<>>
        /\ CountMatching(prev) = 0 => out = prev

\* The statement lists the syntax requires to hold a statement: the body of a
\* conditional, loop, try-block, handler and of a definition or with-block.
NeedsBody == Blocks \cup {"ExceptHandler", "FunctionDef"}

\* C18: under Synthesize the tree returned for a parsed tree leaves no
\* statement list empty that the syntax requires to hold a statement, at any
\* node, bodies of definitions and with-blocks included; a try-block keeps a
\* handler or a finally-clause.
C18_ValidTree ==
    (runs = 1 /\ handle_empty_blocks = "pass") =>
        \A n \in NodesOf(out) :
            /\ n.cls \in NeedsBody => n.body # <<>>
            /\ n.cls = "Try" => (n.handlers # <<>> \/ n.finalbody # <<>>)

RECURSIVE Deleted(_)
RECURSIVE DeletedIn(_)

\* A list without its matching calls, the same deletion done in every
\* statement list below it.
DeletedIn(list) ==
    IF list = <<>> THEN <<>>
    ELSE (IF MatchesNames(Head(list)) THEN <<>> ELSE <<Deleted(Head(list))>>)
         \o DeletedIn(Tail(list))

Deleted(node) ==
    IF node.cls \in {"If", "For", "While"}
    THEN [node EXCEPT !.body = DeletedIn(@), !.orelse = DeletedIn(@)]
    ELSE IF node.cls = "Try"
    THEN [node EXCEPT !.body = DeletedIn(@), !.handlers = DeletedIn(@),
                      !.orelse = DeletedIn(@), !.finalbody = DeletedIn(@)]
    ELSE IF node.cls \in HasBody
    THEN [node EXCEPT !.body = DeletedIn(@)]
    ELSE node

\* C19: under Preserve the output is the input with its matching
\* statement-level calls deleted and nothing else changed: no placeholder,
\* and every construct, else-clause, handler and finally-clause still there,
\* an emptied list being left empty.
C19_PreserveOnlyDeletes ==
    (runs >= 1 /\ handle_empty_blocks = "keep") => out = Deleted(prev)

\* Preserve on a try-block whose handler is emptied and whose protected body
\* keeps a statement.
C19_Witness ==
    /\ runs = 1
    /\ handle_empty_blocks = "keep"
    /\ Len(prev.body) = 1
    /\ prev.body[1].cls = "Try"
    /\ Survivors(prev.body[1].body) # <<>>
    /\ Len(prev.body[1].handlers) = 1
    /\ prev.body[1].handlers[1].body # <<>>
    /\ Len(out.body) = 1
    /\ out.body[1].handlers = <<ExceptHandler(1, <<>>)>>

---------------------------------------------------------------------------
(* Vocabulary of the properties of clean_file and clean_directory.         *)

\* File k has seen the operation `what`.
Did(k, what) == \E i \in DOMAIN events : events[i] = <<k, what>>

BackupAt(i) == events[i][2] \in {"backup", "backup_failed"}

OpenAt(i) == events[i][2] \in {"open", "open_failed"}

\* The file was opened for writing, or the attempt was made.
WriteAttempted(k) == Did(k, "open") \/ Did(k, "open_failed")

WriteFailed(k) == Did(k, "open_failed") \/ Did(k, "write_failed")

\* A call was removed or the comment step changed the text.
Changed == stats.function_calls_removed > 0 \/ comments_removed

\* The file is as it was and nothing was copied.
Untouched(k) ==
    /\ disk[k] = disk0[k]
    /\ backups[k] = <<>>
    /\ ~Did(k, "backup")
    /\ ~Did(k, "backup_failed")

Returned == pc \in {"return", "done"}

\* In dry-run mode, for a name without '.py' and when nothing changed, the
\* file is never modified and no backup is made.
NoChangeNoWrite ==
    /\ (dry_run \/ ~is_py[cur]) => Untouched(cur)
    /\ (Returned /\ ~Changed) => Untouched(cur)

\* C11, as stated: when clean_file returns, the file has been overwritten
\* exactly when dry_run is false and a call was removed or the comment step
\* changed the text; in dry-run mode, for a name without '.py' and when
\* nothing changed, the file is never modified and no backup is made.
C11_OverwriteIffChanged ==
    /\ Returned => (Did(cur, "write") <=> (~dry_run /\ Changed))
    /\ NoChangeNoWrite

\* C11, amended: clean_file starts the overwrite exactly when dry_run is
\* false and a call was removed or the comment step changed the text, and
\* the file has been overwritten, holding the new text, exactly when in
\* addition neither opening nor writing failed; in dry-run mode, for a name
\* without '.py' and when nothing changed, the file is never modified and no
\* backup is made.
C11_OverwriteUnlessWriteFails ==
    /\ Returned =>
          /\ WriteAttempted(cur) <=> (~dry_run /\ Changed)
          /\ Did(cur, "write") <=> (~dry_run /\ Changed /\ ~WriteFailed(cur))
          /\ Did(cur, "write") => disk[cur] = modified_source
    /\ NoChangeNoWrite

\* A file in which only the comment step changed something, rewritten.
C11_Witness ==
    /\ pc = "return"
    /\ ~dry_run
    /\ stats.function_calls_removed = 0
    /\ comments_removed
    /\ Did(cur, "write")
    /\ disk[cur] = modified_source
    /\ disk[cur] # disk0[cur]

\* A backup is attempted only with create_backup_flag, outside a dry run and
\* when something changed, once, before the file is opened for writing, and
\* the opening follows at once; with create_backup_flag no file is opened
\* for writing without it; a copy that succeeded holds the original text;
\* after a copy that failed backup_path is empty and nothing was raised.
BackupOrder ==
    /\ \A i \in DOMAIN events :
          /\ BackupAt(i) =>
                /\ create_backup_flag /\ ~dry_run
                /\ events[i][1] = cur => Changed
                /\ \A j \in 1..(i - 1) :
                      events[j][1] = events[i][1] =>
                          events[j][2] \in {"read", "transform_failed"}
                /\ IF i = Len(events)
                   THEN pc = "open"
                   ELSE events[i + 1][1] = events[i][1] /\ OpenAt(i + 1)
          /\ (OpenAt(i) /\ create_backup_flag) =>
                i > 1 /\ events[i - 1][1] = events[i][1] /\ BackupAt(i - 1)
          /\ events[i][2] = "backup" =>
                backups[events[i][1]] = <<disk0[events[i][1]]>>
    /\ Did(cur, "backup_failed") =>
          stats.backup_path = <<>> /\ pc # "raised"

\* C12, as stated: BackupOrder, and when the backup failed the file has been
\* overwritten when clean_file returns.
C12_BackupBeforeWrite ==
    /\ BackupOrder
    /\ (Returned /\ Did(cur, "backup_failed")) => Did(cur, "write")

\* C12, amended: BackupOrder, and when the backup failed the overwrite has
\* still been started when clean_file returns, and the file has been
\* overwritten unless opening or writing failed as well.
C12_BackupThenWriteAttempt ==
    /\ BackupOrder
    /\ (Returned /\ Did(cur, "backup_failed")) =>
          /\ WriteAttempted(cur)
          /\ ~WriteFailed(cur) => (Did(cur, "write") /\ disk[cur] = modified_source)

\* A failed backup followed by the overwrite.
C12_Witness ==
    /\ pc = "return"
    /\ Did(cur, "backup_failed")
    /\ stats.backup_path = <<>>
    /\ Did(cur, "write")
    /\ disk[cur] = modified_source
    /\ disk[cur] # disk0[cur]

\* C13: after a failed parse or transformation clean_file goes on to the
\* comment step, nothing being raised, the count of removed calls is 0, the
\* comment step, once done, has been applied to the text that
\* was read when stripping is asked for (and the text is as read when not),
\* and the overwrite is started exactly when dry_run is false and the
\* stripper changed the text.
C13_ParseFailureStillStrips ==
    Did(cur, "transform_failed") =>
        /\ pc \in {"strip", "create_backup", "open", "write", "return", "done"}
        /\ stats.function_calls_removed = 0
        /\ pc # "strip" =>
              /\ modified_source = IF remove_comments_flag
                                   THEN Outside(source, 1) ELSE source
              /\ comments_removed <=>
                    (remove_comments_flag /\ Outside(source, 1) # source)
              /\ (pc \in {"create_backup", "open", "write"} \/ WriteAttempted(cur))
                    <=> (~dry_run /\ comments_removed)

\* A text that does not parse, its comment stripped and the rest written.
C13_Witness ==
    /\ pc = "return"
    /\ Did(cur, "transform_failed")
    /\ ~ParseOK(source)
    /\ comments_removed
    /\ Did(cur, "write")
    /\ disk[cur] = Outside(source, 1)
    /\ disk[cur] # source

\* C14: when opening the file for writing or writing into it failed, the
\* file holds, when clean_file returns, the text that was read.
C14_FailedWriteKeepsFile ==
    (Returned /\ WriteFailed(cur)) => disk[cur] = source

\* The reads done so far, in order.
Reads == SelectSeq(events, LAMBDA e : e[2] \in {"read", "read_failed"})

\* The statement-level calls to print of a text, those in comments left out.
Calls(text) ==
    Cardinality({i \in 1..Len(text) : text[i] = "print()" /\ ~InComment(text, i)})

\* C15: in a directory run nothing is raised and a step is always possible
\* until the last file has returned; the files are read once each, in the
\* order of the list, and their operations do not interleave; the result
\* holds one record per file that has returned, the k-th naming the k-th
\* file and holding what that file alone gives.
C15_BatchNeverAborts ==
    /\ pc # "raised"
    /\ pc # "done" => ENABLED NextFile
    /\ Len(all_stats) = IF pc = "done" THEN Len(disk) ELSE cur - 1
    /\ Len(Reads) = IF pc = "clean_file" THEN cur - 1 ELSE cur
    /\ \A i \in DOMAIN Reads : Reads[i][1] = i
    /\ \A i, j \in DOMAIN events : i < j => events[i][1] <= events[j][1]
    /\ \A k \in DOMAIN all_stats :
          /\ all_stats[k].file = k
          /\ all_stats[k].function_calls_removed =
                IF Did(k, "read") /\ ~Did(k, "transform_failed")
                THEN Calls(disk0[k]) ELSE 0
          /\ all_stats[k].comments_removed =>
                (remove_comments_flag /\ Did(k, "read"))
          /\ all_stats[k].backup_path =
                IF Did(k, "backup") THEN <<"/tmp", k>> ELSE <<>>

\* Two files: the first could not be read, the second was rewritten.
C15_Witness ==
    /\ pc = "done"
    /\ Len(disk) = 2
    /\ Len(all_stats) = 2
    /\ Did(1, "read_failed")
    /\ disk[1] = disk0[1]
    /\ Did(2, "write")
    /\ all_stats[2].function_calls_removed = 1

====
